---- MODULE Spec2Model ----
(***************************************************************************)
(* Turn selection of a Team (controlflow/agents/teams.py) and the run      *)
(* context AgentContext (controlflow/orchestration/agent_context.py).      *)
(*                                                                         *)
(* One flow (event log), one live AgentContext at a time, two teams:       *)
(*   Team  = [Alice, Bob]                                                  *)
(*   Outer = [Team, Carol, Dave]  (a team whose first member is a team)    *)
(* and Twin, a second Team object built from the arguments of Team.        *)
(* Events are produced by the leaf agents and reach the log only through   *)
(* AgentContext.handle_event.                                              *)
(*                                                                         *)
(* Next is the disjunction of all operations.  The properties are checked  *)
(* under specifications that each interleave the operations one concern    *)
(* needs: SpecTeam (turn selection), SpecEvents (event emission),          *)
(* SpecPrompt (registration and prompt compilation), SpecIdentity          *)
(* (registration of team objects), SpecLifecycle (construction and         *)
(* with-blocks), SpecFailure (raising handlers), SpecCounter (counters     *)
(* over runs), SpecContext (one context in use), SpecRun (team runs) and   *)
(* SpecAsync (interleaved asynchronous runs).                              *)
(***************************************************************************)
EXTENDS Integers, Sequences, FiniteSets, TLC

VARIABLES
    iterations,     \* Team._iterations, one counter per team object
    flow_events,    \* the flow's event log, oldest first (context.flow)
    next_id,        \* number of events created so far (fresh Event.id)
    tasks,          \* AgentContext.tasks
    agents,         \* AgentContext.agents
    handlers,       \* AgentContext.handlers
    tools,          \* AgentContext.tools
    instructions,   \* AgentContext.instructions
    last_call,      \* the operation that ran last, its arguments and result
    rotation,       \* per team, its latest consecutive rotating get_agent calls
    scenario,       \* how far the behaviour has followed ScenarioScript (-1: left it)
    rotating_calls, \* per team, the get_agent calls so far that found no continuation event
    ambient,        \* the ambient agent context, what get_context() returns
    exit_stack,     \* AgentContext._context of each context object
    scopes,         \* the with-blocks that are open, innermost last
    runs            \* the asynchronous team runs in flight

\* the scoped lifecycle of the context objects
scope_vars == <<ambient, exit_stack, scopes>>

vars == <<iterations, flow_events, next_id, tasks, agents, handlers, tools,
          instructions, last_call, rotation, scenario, rotating_calls, scope_vars, runs>>

----------------------------------------------------------------------------
(* Bounds of the model *)

MaxEvents == 2        \* handle_event calls in one behaviour
MaxIterations == 3    \* cap on a team's turn counter
MaxHandlers == 2      \* cap on the length of the handlers list
MaxItems == 1         \* cap on the lengths of the tools and instructions lists
MaxDepth == 3         \* cap on the number of with-blocks open at once
MaxMembers == 2       \* cap on the length of a member list a Team is constructed from

----------------------------------------------------------------------------
(* The objects of the model *)

Leaves == {"Alice", "Bob", "Carol", "Dave"}
\* the agents that emit events in the model
Authors == {"Alice", "Bob", "Carol"}
Teams == {"Team", "Outer"}
AllAgents == Leaves \cup Teams
\* Twin is a second Team object constructed from the same arguments as Team
TeamObjects == Teams \cup {"Twin"}

\* Team.agents: the ordered, non-empty member list of each team
team_agents == [t \in TeamObjects |-> IF t = "Outer" THEN <<"Team", "Carol", "Dave">>
                                      ELSE <<"Alice", "Bob">>]

\* Team.name: Team and Twin keep the default, Outer is named
team_name == [t \in TeamObjects |-> IF t = "Outer" THEN "Outer" ELSE "Agents"]

Handlers == {"h1", "h2"}
ToolNames == {"search"}
InstructionTexts == {"be brief"}
TaskSets == {{"t1"}, {"t2"}}
\* the runs of the model take the task sets in this order
LaterRun(task_set, later) == task_set = {"t1"} /\ later = {"t2"}
thread_id == "thread-1"
NoThread == "none"

\* AgentContext objects that are entered and exited
Contexts == {"c1", "c2"}
\* get_context() when no context is entered
NoContext == "None"
\* AgentContext._context before the first __enter__
NoStack == [open |-> FALSE, saved |-> NoContext]

\* coroutines of Team._run_async
AsyncRuns == {"r1", "r2"}
NotStarted == [pc |-> "new"]

EventTypes == {"tool-result", "agent-message", "agent-message-delta"}
PersistFlags == {"None", "True", "False"}

Range(s) == {s[i] : i \in 1..Len(s)}

\* A newly created event, before any context has handled it
NewEvent(id, type, agent, end_turn, persist) ==
    [id |-> id, event |-> type, agent |-> agent, end_turn |-> end_turn,
     persist |-> persist, thread_id |-> NoThread, task_ids |-> {}, agent_ids |-> {}]

----------------------------------------------------------------------------
(* Agent identity and equality *)

\* the identifier of a leaf agent, derived from its name
leaf_id(agent) == "Agent(" \o agent \o ")"

\* hash_objects over the parts of a team: a digest that differs whenever a part does
hash_objects(type_name, name, description, prompt, instruction_text, member_ids) ==
    type_name \o "(" \o name \o "," \o description \o "," \o prompt \o ","
              \o instruction_text \o ",[" \o member_ids \o "])"

RECURSIVE generate_id(_)
RECURSIVE member_ids(_)

\* [a.id for a in self.agents]
member_ids(agent_list) ==
    IF agent_list = <<>> THEN ""
    ELSE generate_id(Head(agent_list)) \o ";" \o member_ids(Tail(agent_list))

\* Team._generate_id: from the type name, name, description, prompt, instructions
\* (all three left at None in the model) and the members' ids; the turn counter
\* is not part of it
generate_id(agent) ==
    IF agent \in TeamObjects
    THEN hash_objects("Team", team_name[agent], "None", "None", "None",
                      member_ids(team_agents[agent]))
    ELSE leaf_id(agent)

\* a == b for two agent objects: the same object, or two models of the same class
\* whose fields and whose private attributes are equal.  A team's private
\* attribute is its turn counter _iterations
agent_eq(a, b, its) ==
    \/ a = b
    \/ /\ a \in TeamObjects
       /\ b \in TeamObjects
       /\ team_name[a] = team_name[b]
       /\ team_agents[a] = team_agents[b]
       /\ its[a] = its[b]

\* agent in agent_list
contains(agent_list, agent, its) ==
    \E i \in 1..Len(agent_list) : agent_eq(agent_list[i], agent, its)

----------------------------------------------------------------------------
(* The event log's query, Flow.get_events *)

\* whether event e passes the filters of a query
event_matches(e, agent_list, task_set, types) ==
    /\ e.event \in types
    /\ e.agent \in Range(agent_list)
    /\ e.task_ids \cap task_set # {}

RECURSIVE newest_first(_, _, _, _, _, _)
newest_first(events, i, agent_list, task_set, types, limit) ==
    IF i = 0 \/ limit = 0 THEN <<>>
    ELSE IF event_matches(events[i], agent_list, task_set, types)
         THEN <<events[i]>> \o newest_first(events, i - 1, agent_list, task_set, types, limit - 1)
         ELSE newest_first(events, i - 1, agent_list, task_set, types, limit)

\* flow.get_events(agents=..., tasks=..., types=..., limit=...): newest first
get_events(events, agent_list, task_set, types, limit) ==
    newest_first(events, Len(events), agent_list, task_set, types, limit)

----------------------------------------------------------------------------
(* Team.get_agent *)

\* Variants of get_agent with one slip each

\* the end_turn test the wrong way round
get_agent_inverted_end_turn(team, its, events, ctx_tasks) ==
    LET last_agent_event == get_events(events, team_agents[team], ctx_tasks,
                                       {"tool-result", "agent-message"}, 1)
    IN  IF /\ last_agent_event # <<>>
           /\ last_agent_event[1].event = "tool-result"
           /\ last_agent_event[1].end_turn
        THEN [agent |-> last_agent_event[1].agent, iterations |-> its]
        ELSE [agent |-> team_agents[team][(its % Len(team_agents[team])) + 1],
              iterations |-> its + 1]

\* the counter incremented before the member is looked up
get_agent_increment_first(team, its, events, ctx_tasks) ==
    LET last_agent_event == get_events(events, team_agents[team], ctx_tasks,
                                       {"tool-result", "agent-message"}, 1)
    IN  IF /\ last_agent_event # <<>>
           /\ last_agent_event[1].event = "tool-result"
           /\ ~last_agent_event[1].end_turn
        THEN [agent |-> last_agent_event[1].agent, iterations |-> its]
        ELSE [agent |-> team_agents[team][((its + 1) % Len(team_agents[team])) + 1],
              iterations |-> its + 1]

\* no continuation branch: every call rotates
get_agent_always_rotates(team, its, events, ctx_tasks) ==
    [agent |-> team_agents[team][(its % Len(team_agents[team])) + 1],
     iterations |-> its + 1]

\* the counter is never advanced
get_agent_no_increment(team, its, events, ctx_tasks) ==
    LET last_agent_event == get_events(events, team_agents[team], ctx_tasks,
                                       {"tool-result", "agent-message"}, 1)
    IN  IF /\ last_agent_event # <<>>
           /\ last_agent_event[1].event = "tool-result"
           /\ ~last_agent_event[1].end_turn
        THEN [agent |-> last_agent_event[1].agent, iterations |-> its]
        ELSE [agent |-> team_agents[team][(its % Len(team_agents[team])) + 1],
              iterations |-> its]

\* the log queried without the team's member list
get_agent_any_agent(team, its, events, ctx_tasks) ==
    LET last_agent_event == get_events(events, <<"Alice", "Bob", "Carol", "Dave">>, ctx_tasks,
                                       {"tool-result", "agent-message"}, 1)
    IN  IF /\ last_agent_event # <<>>
           /\ last_agent_event[1].event = "tool-result"
           /\ ~last_agent_event[1].end_turn
        THEN [agent |-> last_agent_event[1].agent, iterations |-> its]
        ELSE [agent |-> team_agents[team][(its % Len(team_agents[team])) + 1],
              iterations |-> its + 1]

\* the counter kept modulo the number of members
get_agent_wraps_counter(team, its, events, ctx_tasks) ==
    LET last_agent_event == get_events(events, team_agents[team], ctx_tasks,
                                       {"tool-result", "agent-message"}, 1)
    IN  IF /\ last_agent_event # <<>>
           /\ last_agent_event[1].event = "tool-result"
           /\ ~last_agent_event[1].end_turn
        THEN [agent |-> last_agent_event[1].agent, iterations |-> its]
        ELSE [agent |-> team_agents[team][(its % Len(team_agents[team])) + 1],
              iterations |-> (its + 1) % Len(team_agents[team])]

get_agent(team, its, events, ctx_tasks) ==
    LET last_agent_event == get_events(events, team_agents[team], ctx_tasks,
                                       {"tool-result", "agent-message"}, 1)
    IN  IF /\ last_agent_event # <<>>
           /\ last_agent_event[1].event = "tool-result"
           /\ ~last_agent_event[1].end_turn
        THEN [agent |-> last_agent_event[1].agent, iterations |-> its]
        ELSE [agent |-> team_agents[team][(its % Len(team_agents[team])) + 1],
              iterations |-> its + 1]

\* The continuation case as the specification words it: the most recent event
\* in the log that is a tool result or an agent message, owned by a member of the
\* team and scoped to the context's active tasks
Relevant(team) ==
    {i \in 1..Len(flow_events) :
        /\ flow_events[i].event \in {"tool-result", "agent-message"}
        /\ \E m \in 1..Len(team_agents[team]) : team_agents[team][m] = flow_events[i].agent
        /\ \E task \in tasks : task \in flow_events[i].task_ids}

LastRelevant(team) ==
    flow_events[CHOOSE i \in Relevant(team) : \A j \in Relevant(team) : j <= i]

Continuation(team) ==
    /\ Relevant(team) # {}
    /\ LastRelevant(team).event = "tool-result"
    /\ LastRelevant(team).end_turn = FALSE

\* the latest calls of a team that came one after the other with no continuation
\* event present, at most as many as the team has members: each with the agent
\* returned and the counter the call found
rotation_after(team, streak, before, agent, continuation) ==
    IF continuation THEN <<>>
    ELSE LET s1 == Append(streak, [agent |-> agent, counter |-> before])
         IN  IF Len(s1) > Len(team_agents[team]) THEN Tail(s1) ELSE s1

\* The end-to-end scenario: Team selects, Alice's tool result keeps the turn, Team
\* selects, Alice's tool result ends the turn, Team selects
ScenarioLength == Len(<<"get_agent", "handle_event", "get_agent", "handle_event", "get_agent">>)

ScenarioStep(k, call) ==
    IF k \in {1, 3, 5} THEN call.op = "get_agent" /\ call.team = "Team"
    ELSE /\ k \in {2, 4}
         /\ call.op = "handle_event"
         /\ call.event.event = "tool-result"
         /\ call.event.agent = "Alice"
         /\ call.event.end_turn = (k = 4)
         /\ call.stored

scenario_after(k, call) ==
    IF k >= 0 /\ k < ScenarioLength /\ ScenarioStep(k + 1, call) THEN k + 1 ELSE -1

\* get_agent resolving a member that is a team by asking that team for its agent
GetAgentResolvingNested(team) ==
    /\ iterations[team] < MaxIterations
    /\ LET r == get_agent(team, iterations[team], flow_events, tasks)
           nested == r.agent \in TeamObjects
           r2 == IF nested
                 THEN get_agent(r.agent, iterations[r.agent], flow_events, tasks)
                 ELSE r
           call == [op |-> "get_agent", team |-> team, agent |-> r2.agent]
       IN  /\ nested => iterations[r.agent] < MaxIterations
           /\ iterations' = [t \in TeamObjects |->
                                 IF t = team THEN r.iterations
                                 ELSE IF nested /\ t = r.agent THEN r2.iterations
                                 ELSE iterations[t]]
           /\ last_call' = call
           /\ rotation' = [rotation EXCEPT ![team] =
                               rotation_after(team, @, iterations[team], r.agent,
                                              Continuation(team))]
           /\ scenario' = scenario_after(scenario, call)
           /\ rotating_calls' = [rotating_calls EXCEPT ![team] =
                                     IF Continuation(team) THEN @ ELSE @ + 1]
    /\ UNCHANGED <<flow_events, next_id, tasks, agents, handlers, tools, instructions,
                   scope_vars, runs>>

GetAgent(team) ==
    /\ iterations[team] < MaxIterations
    /\ LET r == get_agent(team, iterations[team], flow_events, tasks)
           call == [op |-> "get_agent", team |-> team, agent |-> r.agent]
       IN  /\ iterations' = [iterations EXCEPT ![team] = r.iterations]
           /\ last_call' = call
           /\ rotation' = [rotation EXCEPT ![team] =
                               rotation_after(team, @, iterations[team], r.agent,
                                              Continuation(team))]
           /\ scenario' = scenario_after(scenario, call)
           /\ rotating_calls' = [rotating_calls EXCEPT ![team] =
                                     IF Continuation(team) THEN @ ELSE @ + 1]
    /\ UNCHANGED <<flow_events, next_id, tasks, agents, handlers, tools, instructions,
                   scope_vars, runs>>

----------------------------------------------------------------------------
(* AgentContext *)

\* add_agent without the membership test
add_agent_always_appends(agent_list, agent, its) == agent_list \o <<agent>>

add_agent(agent_list, agent, its) ==
    IF ~contains(agent_list, agent, its) THEN agent_list \o <<agent>> ELSE agent_list

AddAgent(agent) ==
    /\ agents' = add_agent(agents, agent, iterations)
    /\ last_call' = [op |-> "add_agent", agent |-> agent]
    /\ scenario' = -1
    /\ UNCHANGED <<iterations, flow_events, next_id, tasks, handlers, tools,
                   instructions, rotation,
                   rotating_calls, scope_vars, runs>>

\* persist_decision with "if not persist" in place of "if persist is None"
persist_decision_falsy_test(event, persist) ==
    IF persist # "True" THEN event.persist ELSE TRUE

\* the caller's explicit flag when one is passed, else the event's own preference
persist_decision(event, persist) ==
    IF persist = "None" THEN event.persist ELSE persist = "True"

\* Event.add_tasks / Event.add_agents: associate the event with tasks / agents
add_tasks(event, task_set) == [event EXCEPT !.task_ids = @ \cup task_set]
add_agents(event, agent_list) == [event EXCEPT !.agent_ids = @ \cup Range(agent_list)]

\* flow.add_events: append to the log
add_events(events, new_events) == events \o new_events

\* handler.handle(event), for each handler in list order: what each call is
\* handed (the event as it is at that moment) and the log's length at that moment
call_handlers(handler_list, event, events) ==
    [i \in 1..Len(handler_list) |->
        [handler |-> handler_list[i], event |-> event, log_len |-> Len(events)]]

\* Variants of handle_event with one slip each

\* the handlers run before the event is stamped and associated
handle_event_handlers_first(event, persist, events, ctx_tasks, ctx_agents, ctx_handlers) ==
    LET decision == persist_decision(event, persist)
        calls == call_handlers(ctx_handlers, event, events)
        e1 == [event EXCEPT !.thread_id = thread_id]
        e2 == add_tasks(e1, ctx_tasks)
        e3 == add_agents(e2, ctx_agents)
        events2 == IF decision THEN add_events(events, <<e3>>) ELSE events
    IN  [event |-> e3, calls |-> calls, events |-> events2]

\* the log is written before the handlers run
handle_event_persist_first(event, persist, events, ctx_tasks, ctx_agents, ctx_handlers) ==
    LET decision == persist_decision(event, persist)
        e1 == [event EXCEPT !.thread_id = thread_id]
        e2 == add_tasks(e1, ctx_tasks)
        e3 == add_agents(e2, ctx_agents)
        events2 == IF decision THEN add_events(events, <<e3>>) ELSE events
        calls == call_handlers(ctx_handlers, e3, events2)
    IN  [event |-> e3, calls |-> calls, events |-> events2]

\* AgentContext.handle_event, statement by statement; the result is the event as
\* the call leaves it, the handler calls made (in order) and the log afterwards
handle_event(event, persist, events, ctx_tasks, ctx_agents, ctx_handlers) ==
    LET decision == persist_decision(event, persist)
        e1 == [event EXCEPT !.thread_id = thread_id]
        e2 == add_tasks(e1, ctx_tasks)
        e3 == add_agents(e2, ctx_agents)
        calls == call_handlers(ctx_handlers, e3, events)
        events2 == IF decision THEN add_events(events, <<e3>>) ELSE events
    IN  [event |-> e3, calls |-> calls, events |-> events2]

HandleEvent(type, agent, end_turn, pref, persist) ==
    /\ next_id <= MaxEvents
    /\ (end_turn => type = "tool-result")
    /\ LET event == NewEvent(next_id, type, agent, end_turn, pref)
           r == handle_event(event, persist, flow_events, tasks, agents, handlers)
           call == [op |-> "handle_event", given |-> event, persist |-> persist,
                    event |-> r.event, calls |-> r.calls,
                    stored |-> r.events # flow_events]
       IN  /\ flow_events' = r.events
           /\ last_call' = call
           /\ scenario' = scenario_after(scenario, call)
    /\ next_id' = next_id + 1
    /\ UNCHANGED <<iterations, tasks, agents, handlers, tools, instructions, rotation,
                   rotating_calls, scope_vars, runs>>

\* handle_event when the k-th handler call raises: the statements before that
\* call have run, the exception leaves the method (nothing catches it) and the
\* log write is not reached
handle_event_raising(event, persist, events, ctx_tasks, ctx_agents, ctx_handlers, k) ==
    LET decision == persist_decision(event, persist)
        e1 == [event EXCEPT !.thread_id = thread_id]
        e2 == add_tasks(e1, ctx_tasks)
        e3 == add_agents(e2, ctx_agents)
        calls == SubSeq(call_handlers(ctx_handlers, e3, events), 1, k)
    IN  [event |-> e3, calls |-> calls, events |-> events]

HandleEventRaising(type, agent, end_turn, pref, persist, k) ==
    /\ next_id <= MaxEvents
    /\ (end_turn => type = "tool-result")
    /\ k \in 1..Len(handlers)
    /\ LET event == NewEvent(next_id, type, agent, end_turn, pref)
           r == handle_event_raising(event, persist, flow_events, tasks, agents,
                                     handlers, k)
       IN  /\ flow_events' = r.events
           /\ last_call' = [op |-> "handle_event_raised", given |-> event,
                            persist |-> persist, event |-> r.event, calls |-> r.calls,
                            stored |-> FALSE, raising |-> k]
    /\ next_id' = next_id + 1
    /\ scenario' = -1
    /\ UNCHANGED <<iterations, tasks, agents, handlers, tools, instructions, rotation,
                   rotating_calls, scope_vars, runs>>

\* add_handlers skipping handlers that are registered already
add_handlers_deduplicates(handler_list, new_handlers) ==
    handler_list \o SelectSeq(new_handlers, LAMBDA h : h \notin Range(handler_list))

add_handlers(handler_list, new_handlers) == handler_list \o new_handlers

AddHandlers(new_handlers) ==
    /\ Len(handlers) + Len(new_handlers) <= MaxHandlers
    /\ handlers' = add_handlers(handlers, new_handlers)
    /\ last_call' = [op |-> "add_handlers", handlers |-> new_handlers]
    /\ scenario' = -1
    /\ UNCHANGED <<iterations, flow_events, next_id, tasks, agents, tools,
                   instructions, rotation,
                   rotating_calls, scope_vars, runs>>

add_tools(tool_list, new_tools) == tool_list \o new_tools

AddTools(new_tools) ==
    /\ Len(tools) + Len(new_tools) <= MaxItems
    /\ tools' = add_tools(tools, new_tools)
    /\ last_call' = [op |-> "add_tools", tools |-> new_tools]
    /\ scenario' = -1
    /\ UNCHANGED <<iterations, flow_events, next_id, tasks, agents, handlers,
                   instructions, rotation,
                   rotating_calls, scope_vars, runs>>

add_instructions(instruction_list, new_instructions) ==
    instruction_list \o new_instructions

AddInstructions(new_instructions) ==
    /\ Len(instructions) + Len(new_instructions) <= MaxItems
    /\ instructions' = add_instructions(instructions, new_instructions)
    /\ last_call' = [op |-> "add_instructions", instructions |-> new_instructions]
    /\ scenario' = -1
    /\ UNCHANGED <<iterations, flow_events, next_id, tasks, agents, handlers,
                   tools, rotation,
                   rotating_calls, scope_vars, runs>>

----------------------------------------------------------------------------
(* AgentContext.compile_prompt *)

\* agent.get_prompt(context): the text the agent's prompt template renders to;
\* Carol's template renders to nothing
get_prompt(agent) == IF agent = "Carol" THEN "" ELSE "# " \o agent

flow_prompt == "# Flow"

\* the list templates render nothing for an empty list
RECURSIVE render_items(_)
render_items(items) ==
    IF items = <<>> THEN "" ELSE " " \o Head(items) \o render_items(Tail(items))

render_tasks(task_set) == IF "t1" \in task_set THEN "# Tasks t1" ELSE "# Tasks t2"
render_tools(tool_list) ==
    IF tool_list = <<>> THEN "" ELSE "# Tools" \o render_items(tool_list)
render_instructions(instruction_list) ==
    IF instruction_list = <<>> THEN "" ELSE "# Instructions" \o render_items(instruction_list)

\* reversed(list)
RECURSIVE reversed(_)
reversed(s) == IF s = <<>> THEN <<>> ELSE reversed(Tail(s)) \o <<Head(s)>>

\* [p for p in prompts if p]
RECURSIVE drop_empty(_)
drop_empty(s) ==
    IF s = <<>> THEN <<>>
    ELSE IF Head(s) = "" THEN drop_empty(Tail(s))
         ELSE <<Head(s)>> \o drop_empty(Tail(s))

\* "\n\n".join(parts)
RECURSIVE join(_)
join(parts) ==
    IF parts = <<>> THEN ""
    ELSE IF Len(parts) = 1 THEN parts[1]
         ELSE parts[1] \o "\n\n" \o join(Tail(parts))

\* compile_prompt with the agents taken in registration order
compile_prompt_registration_order(agent, ctx_agents, ctx_tasks, ctx_tools, ctx_instructions, its) ==
    LET agents1 == IF ~contains(ctx_agents, agent, its) THEN ctx_agents \o <<agent>>
                   ELSE ctx_agents
        prompts == [i \in 1..Len(agents1) |-> get_prompt(agents1[i])]
                   \o <<flow_prompt,
                        render_tasks(ctx_tasks),
                        render_tools(ctx_tools),
                        render_instructions(ctx_instructions)>>
    IN  join(drop_empty(prompts))

compile_prompt(agent, ctx_agents, ctx_tasks, ctx_tools, ctx_instructions, its) ==
    LET agents1 == IF ~contains(ctx_agents, agent, its) THEN ctx_agents \o <<agent>>
                   ELSE ctx_agents
        rev == reversed(agents1)
        prompts == [i \in 1..Len(rev) |-> get_prompt(rev[i])]
                   \o <<flow_prompt,
                        render_tasks(ctx_tasks),
                        render_tools(ctx_tools),
                        render_instructions(ctx_instructions)>>
    IN  join(drop_empty(prompts))

\* compile_prompt appending the target to self.agents in place
CompilePromptRegistering(agent) ==
    /\ last_call' = [op |-> "compile_prompt", agent |-> agent,
                     prompt |-> compile_prompt(agent, agents, tasks, tools, instructions,
                                                 iterations)]
    /\ agents' = add_agent(agents, agent, iterations)
    /\ scenario' = -1
    /\ UNCHANGED <<iterations, flow_events, next_id, tasks, handlers, tools,
                   instructions, rotation, rotating_calls, scope_vars, runs>>

CompilePrompt(agent) ==
    /\ last_call' = [op |-> "compile_prompt", agent |-> agent,
                     prompt |-> compile_prompt(agent, agents, tasks, tools, instructions,
                                                 iterations)]
    /\ scenario' = -1
    /\ UNCHANGED <<iterations, flow_events, next_id, tasks, agents, handlers, tools,
                   instructions, rotation,
                   rotating_calls, scope_vars, runs>>

----------------------------------------------------------------------------
(* AgentContext.get_events and compile_messages *)

\* the cap on the events fetched when the caller gives no limit
DefaultLimit == 100

\* flow.get_events(limit=...) with no other filter: the newest events, newest first
RECURSIVE newest_events(_, _, _)
newest_events(events, i, limit) ==
    IF i = 0 \/ limit = 0 THEN <<>>
    ELSE <<events[i]>> \o newest_events(events, i - 1, limit - 1)

\* AgentContext.get_events(limit): "limit or 100"; 0 stands for no limit given
context_get_events(events, limit) ==
    newest_events(events, Len(events), IF limit = 0 THEN DefaultLimit ELSE limit)

\* MessageCompiler(...).compile_to_messages: the system prompt and the events
\* it was given
compile_to_messages(events, system_prompt) ==
    [system_prompt |-> system_prompt, events |-> events]

compile_messages(agent, events, ctx_agents, ctx_tasks, ctx_tools, ctx_instructions, its) ==
    LET fetched == context_get_events(events, 0)
    IN  compile_to_messages(fetched,
                            compile_prompt(agent, ctx_agents, ctx_tasks, ctx_tools,
                                           ctx_instructions, its))

CompileMessages(agent) ==
    /\ last_call' = [op |-> "compile_messages", agent |-> agent,
                     messages |-> compile_messages(agent, flow_events, agents, tasks,
                                                   tools, instructions, iterations)]
    /\ scenario' = -1
    /\ UNCHANGED <<iterations, flow_events, next_id, tasks, agents, handlers, tools,
                   instructions, rotation, rotating_calls, scope_vars, runs>>

----------------------------------------------------------------------------
(* A new run: a fresh AgentContext over the same flow and the same teams *)

NewContext(task_set) ==
    /\ tasks' = task_set
    /\ agents' = <<>>
    /\ handlers' = <<>>
    /\ tools' = <<>>
    /\ instructions' = <<>>
    /\ last_call' = [op |-> "new_context"]
    /\ scenario' = -1
    /\ UNCHANGED <<iterations, flow_events, next_id, rotation,
                   rotating_calls, scope_vars, runs>>

----------------------------------------------------------------------------
(* Team._run *)

\* Agent._run of a leaf agent: the agent registers itself as a participant and
\* takes its turn
agent_run(agent, st) ==
    [st EXCEPT !.agents = add_agent(@, agent, st.iterations), !.acting = agent]

\* Team._run: the team registers itself, selects a member and delegates the run
\* to it.  st carries the participant list, the counters, the selections made so
\* far in this run and the agent the run ends with
RECURSIVE team_run(_, _, _, _)
team_run(team, st, events, ctx_tasks) ==
    LET agents1 == add_agent(st.agents, team, st.iterations)
        r == get_agent(team, st.iterations[team], events, ctx_tasks)
        st1 == [st EXCEPT !.agents = agents1,
                          !.iterations[team] = r.iterations,
                          !.selections = Append(@, [team |-> team, agent |-> r.agent,
                                                    counter |-> st.iterations[team],
                                                    continued |-> r.iterations = st.iterations[team]])]
    IN  IF r.agent \in TeamObjects THEN team_run(r.agent, st1, events, ctx_tasks)
        ELSE agent_run(r.agent, st1)

\* the teams whose get_agent a run called
Selecting(selections) == {selections[i].team : i \in 1..Len(selections)}
SelectionOf(selections, team) ==
    selections[CHOOSE i \in 1..Len(selections) : selections[i].team = team]

Run(team) ==
    LET r == team_run(team, [agents |-> agents, iterations |-> iterations,
                             selections |-> <<>>, acting |-> "none"],
                      flow_events, tasks)
    IN  /\ \A t \in TeamObjects : r.iterations[t] <= MaxIterations
        /\ agents' = r.agents
        /\ iterations' = r.iterations
        /\ last_call' = [op |-> "run", team |-> team, selections |-> r.selections,
                         acting |-> r.acting]
        /\ rotation' = [t \in TeamObjects |->
                            IF t \in Selecting(r.selections)
                            THEN rotation_after(t, rotation[t], iterations[t],
                                                SelectionOf(r.selections, t).agent,
                                                Continuation(t))
                            ELSE rotation[t]]
        /\ rotating_calls' = [t \in TeamObjects |->
                                  IF t \in Selecting(r.selections) /\ ~Continuation(t)
                                  THEN rotating_calls[t] + 1 ELSE rotating_calls[t]]
        /\ scenario' = -1
        /\ UNCHANGED <<flow_events, next_id, tasks, handlers, tools, instructions,
                       scope_vars, runs>>

----------------------------------------------------------------------------
(* Team._run_async: coroutines that interleave *)

\* team._run_async(context) is called: a coroutine object, nothing of its body
\* has run yet; seen records the counters as they are at this moment
AsyncStart(p, team) ==
    /\ runs[p].pc = "new"
    /\ runs' = [runs EXCEPT ![p] = [pc |-> "created", team |-> team, seen |-> iterations]]
    /\ last_call' = [op |-> "async_start", run |-> p, team |-> team]
    /\ scenario' = -1
    /\ UNCHANGED <<iterations, flow_events, next_id, tasks, agents, handlers, tools,
                   instructions, rotation, rotating_calls, scope_vars>>

\* the body of _run_async suspended between reading the counters and using
\* them: the selection works on the counters seen when the coroutine was created
AsyncSelectFromStaleCounters(p) ==
    /\ runs[p].pc = "created"
    /\ LET team == runs[p].team
           r == team_run(team, [agents |-> agents, iterations |-> runs[p].seen,
                                selections |-> <<>>, acting |-> "none"],
                         flow_events, tasks)
       IN  /\ \A t \in TeamObjects : r.iterations[t] <= MaxIterations
           /\ agents' = r.agents
           /\ iterations' = [t \in TeamObjects |->
                                 IF t \in Selecting(r.selections) THEN r.iterations[t]
                                 ELSE iterations[t]]
           /\ runs' = [runs EXCEPT ![p] = [pc |-> "acting", team |-> team,
                                           agent |-> r.acting,
                                           selections |-> r.selections]]
           /\ last_call' = [op |-> "async_select", run |-> p, team |-> team,
                            selections |-> r.selections, acting |-> r.acting]
           /\ rotation' = [t \in TeamObjects |->
                               IF t \in Selecting(r.selections)
                               THEN rotation_after(t, rotation[t], iterations[t],
                                                   SelectionOf(r.selections, t).agent,
                                                   Continuation(t))
                               ELSE rotation[t]]
           /\ rotating_calls' = [t \in TeamObjects |->
                                     IF t \in Selecting(r.selections) /\ ~Continuation(t)
                                     THEN rotating_calls[t] + 1 ELSE rotating_calls[t]]
    /\ scenario' = -1
    /\ UNCHANGED <<flow_events, next_id, tasks, handlers, tools, instructions,
                   scope_vars>>

\* the coroutine is scheduled for the first time: add_agent, get_agent and the
\* call of the member's _run_async run without an await in between, down to the
\* leaf agent whose turn is the first point where the coroutine can suspend
AsyncSelect(p) ==
    /\ runs[p].pc = "created"
    /\ LET team == runs[p].team
           r == team_run(team, [agents |-> agents, iterations |-> iterations,
                                selections |-> <<>>, acting |-> "none"],
                         flow_events, tasks)
       IN  /\ \A t \in TeamObjects : r.iterations[t] <= MaxIterations
           /\ agents' = r.agents
           /\ iterations' = r.iterations
           /\ runs' = [runs EXCEPT ![p] = [pc |-> "acting", team |-> team,
                                           agent |-> r.acting,
                                           selections |-> r.selections]]
           /\ last_call' = [op |-> "async_select", run |-> p, team |-> team,
                            selections |-> r.selections, acting |-> r.acting]
           /\ rotation' = [t \in TeamObjects |->
                               IF t \in Selecting(r.selections)
                               THEN rotation_after(t, rotation[t], iterations[t],
                                                   SelectionOf(r.selections, t).agent,
                                                   Continuation(t))
                               ELSE rotation[t]]
           /\ rotating_calls' = [t \in TeamObjects |->
                                     IF t \in Selecting(r.selections) /\ ~Continuation(t)
                                     THEN rotating_calls[t] + 1 ELSE rotating_calls[t]]
    /\ scenario' = -1
    /\ UNCHANGED <<flow_events, next_id, tasks, handlers, tools, instructions,
                   scope_vars>>

\* inside its turn the acting agent of a run emits a tool result
AsyncEmit(p, end_turn) ==
    /\ runs[p].pc = "acting"
    /\ HandleEvent("tool-result", runs[p].agent, end_turn, TRUE, "None")

\* the member's turn ends and with it the run
AsyncFinish(p) ==
    /\ runs[p].pc = "acting"
    /\ runs' = [runs EXCEPT ![p].pc = "done"]
    /\ last_call' = [op |-> "async_finish", run |-> p]
    /\ scenario' = -1
    /\ UNCHANGED <<iterations, flow_events, next_id, tasks, agents, handlers, tools,
                   instructions, rotation, rotating_calls, scope_vars>>

----------------------------------------------------------------------------
(* Team construction: the validator of the agents field *)

\* validate_agents accepting an empty list
validate_agents_accepts_empty(v) == [error |-> "none", agents |-> v]

\* validate_agents: "if not v: raise ValueError", else the list as given
validate_agents(v) ==
    IF Len(v) = 0 THEN [error |-> "ValueError", agents |-> <<>>]
    ELSE [error |-> "none", agents |-> v]

\* Team(agents=v): the validator runs; when it passes, the new object has the
\* member list as given and its turn counter at 0
ConstructTeam(v) ==
    /\ LET r == validate_agents(v)
       IN  last_call' = [op |-> "construct", given |-> v, error |-> r.error,
                         team |-> IF r.error = "none"
                                  THEN <<[agents |-> r.agents, iterations |-> 0]>>
                                  ELSE <<>>]
    /\ scenario' = -1
    /\ UNCHANGED <<iterations, flow_events, next_id, tasks, agents, handlers, tools,
                   instructions, rotation, rotating_calls, scope_vars, runs>>

----------------------------------------------------------------------------
(* The scoped lifecycle: AgentContext.__enter__ and __exit__ *)

\* An ExitStack is modelled by whether it still holds the entered ctx(...) block
\* and by the ambient value that block puts back when it is left

\* __enter__: a fresh ExitStack replaces self._context and enters
\* ctx(agent_context=self), which makes the context ambient
context_enter(c, amb, stacks) ==
    [ambient |-> c,
     exit_stack |-> [stacks EXCEPT ![c] = [open |-> TRUE, saved |-> amb]]]

\* __exit__: self._context.close() leaves what the stack still holds (closing a
\* stack a second time does nothing), then "return False"
context_exit(c, amb, stacks) ==
    IF stacks[c].open
    THEN [ambient |-> stacks[c].saved,
          exit_stack |-> [stacks EXCEPT ![c].open = FALSE],
          suppress |-> FALSE]
    ELSE [ambient |-> amb, exit_stack |-> stacks, suppress |-> FALSE]

\* "with c:" begins
Enter(c) ==
    /\ Len(scopes) < MaxDepth
    /\ LET r == context_enter(c, ambient, exit_stack)
       IN  /\ ambient' = r.ambient
           /\ exit_stack' = r.exit_stack
    /\ scopes' = Append(scopes, [context |-> c, before |-> ambient])
    /\ last_call' = [op |-> "enter", context |-> c]
    /\ scenario' = -1
    /\ UNCHANGED <<iterations, flow_events, next_id, tasks, agents, handlers, tools,
                   instructions, rotation, rotating_calls, runs>>

\* the innermost open with-block ends, normally or with an exception in flight
Exit(raised) ==
    /\ scopes # <<>>
    /\ LET c == scopes[Len(scopes)].context
           r == context_exit(c, ambient, exit_stack)
       IN  /\ ambient' = r.ambient
           /\ exit_stack' = r.exit_stack
           /\ last_call' = [op |-> "exit", context |-> c, raised |-> raised,
                            suppressed |-> raised /\ r.suppress,
                            before |-> scopes[Len(scopes)].before]
    /\ scopes' = SubSeq(scopes, 1, Len(scopes) - 1)
    /\ scenario' = -1
    /\ UNCHANGED <<iterations, flow_events, next_id, tasks, agents, handlers, tools,
                   instructions, rotation, rotating_calls, runs>>

----------------------------------------------------------------------------
(* Specifications *)

Init ==
    /\ iterations = [t \in TeamObjects |-> 0]
    /\ flow_events = <<>>
    /\ next_id = 1
    /\ tasks = {"t1"}
    /\ agents = <<>>
    /\ handlers = <<>>
    /\ tools = <<>>
    /\ instructions = <<>>
    /\ last_call = [op |-> "init"]
    /\ rotation = [t \in TeamObjects |-> <<>>]
    /\ scenario = 0
    /\ rotating_calls = [t \in TeamObjects |-> 0]
    /\ ambient = NoContext
    /\ exit_stack = [c \in Contexts |-> NoStack]
    /\ scopes = <<>>
    /\ runs = [p \in AsyncRuns |-> NotStarted]

HandlerLists == UNION {[1..n -> Handlers] : n \in 1..MaxHandlers}
ToolLists == UNION {[1..n -> ToolNames] : n \in 1..MaxItems}
InstructionLists == UNION {[1..n -> InstructionTexts] : n \in 1..MaxItems}

\* the turn loop: teams select, agents emit events, runs begin
NextTeam ==
    \/ \E team \in Teams : GetAgent(team)
    \/ \E agent \in Authors, end_turn \in BOOLEAN :
          HandleEvent("tool-result", agent, end_turn, TRUE, "None")
    \/ \E agent \in Authors : HandleEvent("agent-message", agent, FALSE, TRUE, "None")
    \/ HandleEvent("agent-message-delta", "Alice", FALSE, FALSE, "True")
    \/ \E agent \in Authors : HandleEvent("tool-result", agent, FALSE, TRUE, "False")
    \/ \E task_set \in TaskSets : LaterRun(tasks, task_set) /\ NewContext(task_set)

SpecTeam == Init /\ [][NextTeam]_vars

\* event emission: participants and handlers register, events are handled
NextEvents ==
    \/ \E agent \in {"Team", "Alice"} : AddAgent(agent)
    \/ \E new_handlers \in HandlerLists : AddHandlers(new_handlers)
    \/ \E pref \in BOOLEAN, persist \in PersistFlags :
          HandleEvent("agent-message", "Alice", FALSE, pref, persist)

SpecEvents == Init /\ [][NextEvents]_vars

\* prompt compilation: participants, tools and instructions register, prompts compile
NextPrompt ==
    \/ \E agent \in AllAgents : AddAgent(agent)
    \/ \E new_tools \in ToolLists : AddTools(new_tools)
    \/ \E new_instructions \in InstructionLists : AddInstructions(new_instructions)
    \/ \E agent \in AllAgents : CompilePrompt(agent)

SpecPrompt == Init /\ [][NextPrompt]_vars

\* the member lists teams are constructed from: none, leaf agents, a team
MemberLists == UNION {[1..n -> {"Alice", "Bob", "Team"}] : n \in 0..MaxMembers}

\* teams are constructed; contexts are entered and left in nested with-blocks
NextLifecycle ==
    \/ \E v \in MemberLists : ConstructTeam(v)
    \/ \E c \in Contexts : Enter(c)
    \/ \E raised \in BOOLEAN : Exit(raised)

SpecLifecycle == Init /\ [][NextLifecycle]_vars

\* event emission with handlers that may raise
NextFailure ==
    \/ AddAgent("Alice")
    \/ \E new_handlers \in HandlerLists : AddHandlers(new_handlers)
    \/ \E pref \in BOOLEAN, persist \in {"None", "True"} :
          HandleEvent("agent-message", "Alice", FALSE, pref, persist)
    \/ \E pref \in BOOLEAN, persist \in {"None", "True"}, k \in 1..MaxHandlers :
          HandleEventRaising("agent-message", "Alice", FALSE, pref, persist, k)

SpecFailure == Init /\ [][NextFailure]_vars

\* the life of the counters: teams select over several runs, Alice emits tool
\* results, a context is entered and left
NextCounter ==
    \/ \E team \in Teams : GetAgent(team)
    \/ \E end_turn \in BOOLEAN : HandleEvent("tool-result", "Alice", end_turn, TRUE, "None")
    \/ \E task_set \in TaskSets : LaterRun(tasks, task_set) /\ NewContext(task_set)
    \/ Enter("c1")
    \/ Exit(FALSE)

SpecCounter == Init /\ [][NextCounter]_vars

\* one context in use: everything registers, events are handled, prompts and
\* messages are compiled, Team runs
NextContext ==
    \/ AddAgent("Alice")
    \/ \E new_handlers \in HandlerLists : AddHandlers(new_handlers)
    \/ \E new_tools \in ToolLists : AddTools(new_tools)
    \/ \E new_instructions \in InstructionLists : AddInstructions(new_instructions)
    \/ HandleEvent("agent-message", "Alice", FALSE, TRUE, "None")
    \/ \E agent \in {"Alice", "Bob"} : CompilePrompt(agent)
    \/ \E agent \in {"Alice", "Bob"} : CompileMessages(agent)
    \/ Run("Team")

SpecContext == Init /\ [][NextContext]_vars

\* asynchronous runs of the teams, interleaving at the members' turns
NextAsync ==
    \/ \E p \in AsyncRuns, team \in Teams : AsyncStart(p, team)
    \/ \E p \in AsyncRuns : AsyncSelect(p)
    \/ \E p \in AsyncRuns, end_turn \in BOOLEAN : AsyncEmit(p, end_turn)
    \/ \E p \in AsyncRuns : AsyncFinish(p)

SpecAsync == Init /\ [][NextAsync]_vars

\* registration: teams run and register themselves and their members, team
\* objects are registered directly
NextIdentity ==
    \/ \E team \in {"Outer", "Twin"} : Run(team)
    \/ \E agent \in {"Team", "Twin"} : AddAgent(agent)

SpecIdentity == Init /\ [][NextIdentity]_vars

\* team runs: Outer runs, teams select, Bob emits tool results, tools register
NextRun ==
    \/ Run("Outer")
    \/ \E team \in Teams : GetAgent(team)
    \/ \E end_turn \in BOOLEAN : HandleEvent("tool-result", "Bob", end_turn, TRUE, "None")
    \/ \E new_tools \in ToolLists : AddTools(new_tools)

SpecRun == Init /\ [][NextRun]_vars

Next ==
    \/ NextTeam
    \/ NextEvents
    \/ NextPrompt
    \/ NextIdentity
    \/ NextLifecycle
    \/ NextFailure
    \/ NextCounter
    \/ NextContext
    \/ NextAsync
    \/ NextRun

Spec == Init /\ [][Next]_vars

----------------------------------------------------------------------------
(* Properties of Team.get_agent, under SpecTeam *)

\* a step that is a call of get_agent on team
IsGetAgent(team) == last_call'.op = "get_agent" /\ last_call'.team = team

\* the member rotation selects at counter value c
RotationMember(team, c) == team_agents[team][(c % Len(team_agents[team])) + 1]

\* C1: when the most recent relevant event is a tool result with end_turn = false
\* produced by agent A, get_agent returns A whatever the counter is, and leaves the
\* team's counter as it was
C1_ContinuationReturnsProducer ==
    [][\A team \in Teams :
        (IsGetAgent(team) /\ Continuation(team)) =>
            /\ last_call'.agent = LastRelevant(team).agent
            /\ iterations'[team] = iterations[team]]_vars

\* C1 happens: a call returned the producer of a continuation event although the
\* counter pointed at another member
C1_Witness ==
    /\ last_call.op = "get_agent"
    /\ Continuation(last_call.team)
    /\ last_call.agent = LastRelevant(last_call.team).agent
    /\ iterations[last_call.team] >= 1
    /\ RotationMember(last_call.team, iterations[last_call.team]) # last_call.agent

\* C2: when no continuation applies (the most recent relevant event is a tool result
\* with end_turn = true, or an agent message, or there is none), get_agent returns
\* M[c mod len(M)] and leaves the counter at c + 1
C2_RotationSelectsByCounter ==
    [][\A team \in Teams :
        (IsGetAgent(team) /\ ~Continuation(team)) =>
            /\ last_call'.agent = RotationMember(team, iterations[team])
            /\ iterations'[team] = iterations[team] + 1]_vars

\* C2 happens: a call rotated past a tool result that ended the turn, from a counter
\* that had already wrapped around the member list
C2_Witness ==
    /\ last_call.op = "get_agent"
    /\ Relevant(last_call.team) # {}
    /\ LastRelevant(last_call.team).event = "tool-result"
    /\ LastRelevant(last_call.team).end_turn
    /\ iterations[last_call.team] = Len(team_agents[last_call.team]) + 1
    /\ last_call.agent = team_agents[last_call.team][1]

\* C3: Team = [Alice, Bob], counter 0, empty log: the first get_agent returns Alice
\* and the counter is 1; after Alice's tool result with end_turn = false is stored
\* the second returns Alice and the counter stays 1; after Alice's tool result with
\* end_turn = true is stored the third returns Bob and the counter is 2
C3_EndToEndScenario ==
    /\ scenario = 1 => (last_call.agent = "Alice" /\ iterations["Team"] = 1)
    /\ scenario = 2 => iterations["Team"] = 1
    /\ scenario = 3 => (last_call.agent = "Alice" /\ iterations["Team"] = 1)
    /\ scenario = 4 => iterations["Team"] = 1
    /\ scenario = 5 => (last_call.agent = "Bob" /\ iterations["Team"] = 2)

\* C3 happens: the scenario ran to its end
C3_Witness ==
    /\ scenario = ScenarioLength
    /\ Len(flow_events) = 2
    /\ last_call.op = "get_agent"

\* C4: len(M) consecutive get_agent calls with no continuation event present return
\* every member of M exactly once, in list order taken cyclically from the index
\* (counter mod len(M)) the first of them found
C4_RotationVisitsEveryMemberOnce ==
    \A team \in Teams :
        LET n == Len(team_agents[team])
            streak == rotation[team]
        IN  Len(streak) = n =>
                /\ \A i \in 1..n :
                     streak[i].agent = team_agents[team][((streak[1].counter + i - 1) % n) + 1]
                /\ \A i, j \in 1..n : streak[i].agent = streak[j].agent => i = j
                /\ {streak[i].agent : i \in 1..n} = Range(team_agents[team])

\* C4 happens: a full round that began in the middle of the member list
C4_Witness ==
    \E team \in Teams :
        /\ Len(rotation[team]) = Len(team_agents[team])
        /\ rotation[team][1].counter = 1
        /\ rotation[team][1].agent = team_agents[team][2]

----------------------------------------------------------------------------
(* Properties of AgentContext.handle_event, under SpecEvents *)

\* how many entries of the log hold the event of this id
TimesInLog(id) == Cardinality({i \in 1..Len(flow_events) : flow_events[i].id = id})

\* the event carries the flow's thread id, every active task and every registered agent
Enriched(event) ==
    /\ event.thread_id = thread_id
    /\ \A task \in tasks : task \in event.task_ids
    /\ \A i \in 1..Len(agents) : agents[i] \in event.agent_ids

\* the handler call came before the log write: the log it found did not hold the event
BeforeLogWrite(call) ==
    /\ call.log_len <= Len(flow_events)
    /\ \A j \in 1..call.log_len : flow_events[j].id # call.event.id

\* a call with persist=None on an event whose own preference is true has returned
DefaultPersistCall ==
    /\ last_call.op = "handle_event"
    /\ last_call.persist = "None"
    /\ last_call.given.persist

C7_EnrichThenHandleThenPersist ==
    last_call.op = "handle_event" =>
        /\ [i \in 1..Len(last_call.calls) |-> last_call.calls[i].handler] = handlers
        /\ \A i \in 1..Len(last_call.calls) :
               /\ last_call.calls[i].event.thread_id = thread_id
               /\ tasks \subseteq last_call.calls[i].event.task_ids
               /\ Range(agents) \subseteq last_call.calls[i].event.agent_ids
               /\ last_call.calls[i].log_len = Len(flow_events) - (IF last_call.stored THEN 1 ELSE 0)
        /\ last_call.stored =>
               flow_events[Len(flow_events)] = last_call.event

\* C7 happens: two different handlers, second-registered first in name order, a
\* participant registered, and the event stored
C7_Witness ==
    /\ last_call.op = "handle_event"
    /\ handlers = <<"h2", "h1">>
    /\ last_call.stored
    /\ agents # <<>>

\* the decision C8 states
StatedDecision(call) ==
    IF call.persist = "None" THEN call.given.persist ELSE call.persist = "True"

\* C8: the persist decision is the caller's flag when one is passed and otherwise the
\* event's own preference; every registered handler observes the event whatever the
\* decision is; when the decision is false the log is left unchanged
C8_PersistDecision ==
    [][last_call'.op = "handle_event" =>
        /\ Len(last_call'.calls) = Len(handlers)
        /\ \A i \in 1..Len(handlers) :
               /\ last_call'.calls[i].handler = handlers[i]
               /\ last_call'.calls[i].event.id = last_call'.given.id
        /\ IF StatedDecision(last_call')
           THEN flow_events' = Append(flow_events, last_call'.event)
           ELSE flow_events' = flow_events]_vars

\* C8 happens: persist=False on an event whose own preference is true, with a
\* handler registered
C8_Witness ==
    /\ last_call.op = "handle_event"
    /\ last_call.persist = "False"
    /\ last_call.given.persist
    /\ Len(last_call.calls) >= 1
    /\ ~last_call.stored
    /\ TimesInLog(last_call.event.id) = 0

----------------------------------------------------------------------------
(* Properties of compile_prompt and add_agent, under SpecPrompt *)

\* the segments C9 lists, in its order: the participants' prompts from the last
\* registered to the first, the target counting as last registered when it is not
\* registered, then the flow, the tasks, the tools, the instructions
StatedSegments(target) ==
    LET registered == IF \E i \in 1..Len(agents) : agents[i] = target
                      THEN agents ELSE Append(agents, target)
        n == Len(registered)
    IN  [i \in 1..n |-> get_prompt(registered[n + 1 - i])]
        \o <<flow_prompt, render_tasks(tasks), render_tools(tools),
             render_instructions(instructions)>>

IsText(p) == p # ""

\* the first k of the segments, a blank line between neighbours
RECURSIVE BlankLineSeparated(_, _)
BlankLineSeparated(segments, k) ==
    IF k = 0 THEN ""
    ELSE IF k = 1 THEN segments[1]
         ELSE BlankLineSeparated(segments, k - 1) \o "\n\n" \o segments[k]

\* C9: compile_prompt(agent) is the blank-line-separated concatenation, empty
\* renderings dropped, of the segments in the stated order
C9_PromptSegmentsInOrder ==
    last_call.op = "compile_prompt" =>
        LET kept == SelectSeq(StatedSegments(last_call.agent), IsText)
        IN  last_call.prompt = BlankLineSeparated(kept, Len(kept))

\* C9 happens: registered [Alice, Bob], target Team not registered, no tools (an
\* empty rendering), one instruction: Team's prompt, then Bob's, then Alice's
C9_Witness ==
    /\ last_call.op = "compile_prompt"
    /\ agents = <<"Alice", "Bob">>
    /\ last_call.agent = "Team"
    /\ tools = <<>>
    /\ instructions = <<"be brief">>
    /\ last_call.prompt =
         "# Team\n\n# Bob\n\n# Alice\n\n# Flow\n\n# Tasks t1\n\n# Instructions be brief"

\* C10: add_agent with an agent already in the participant list leaves the list as
\* it is, in length and order; with an agent not in the list it appends the agent
\* at the end; a second call with the same agent changes nothing
C10_AddAgentIdempotent ==
    [][last_call'.op = "add_agent" =>
        /\ IF \E i \in 1..Len(agents) : agents[i] = last_call'.agent
           THEN agents' = agents
           ELSE agents' = Append(agents, last_call'.agent)
        /\ add_agent(agents', last_call'.agent, iterations') = agents']_vars

\* C10 happens: add_agent was called with an agent registered earlier, which is
\* not the last of three participants
C10_Witness ==
    /\ last_call.op = "add_agent"
    /\ Len(agents) = 3
    /\ agents[1] = last_call.agent
    /\ \A i, j \in 1..3 : agents[i] = agents[j] => i = j

----------------------------------------------------------------------------
(* Properties of the participant list, under SpecIdentity *)

\* C11: after any sequence of add_agent calls, those made by a running parent team
\* and by the nested member it delegates to included, and those made with distinct
\* agent objects that share one derived identifier included, the participant list
\* never contains two entries with the same agent identity
C11_NoTwoEntriesWithOneIdentity ==
    \A i, j \in 1..Len(agents) :
        generate_id(agents[i]) = generate_id(agents[j]) => i = j

----------------------------------------------------------------------------
(* Properties of the scoped lifecycle and of construction, under SpecLifecycle *)

\* C12: entering a context makes it the ambient context; every exit puts the
\* ambient context back to what it was just before the matching enter and never
\* suppresses an exception in flight, for any nesting of with-blocks, the same
\* context object entered again while it is entered included
C12_ExitRestoresAmbient ==
    [][/\ last_call'.op = "enter" => ambient' = last_call'.context
       /\ last_call'.op = "exit" =>
            /\ ambient' = last_call'.before
            /\ ~last_call'.suppressed]_vars

\* C13: constructing a Team with an empty member list always fails with a
\* validation error; constructing one with one or more members always succeeds
C13_EmptyTeamRejected ==
    last_call.op = "construct" =>
        IF last_call.given = <<>>
        THEN last_call.error = "ValueError" /\ last_call.team = <<>>
        ELSE /\ last_call.error = "none"
             /\ Len(last_call.team) = 1
             /\ last_call.team[1].agents = last_call.given

\* C13 happens: a construction from the empty list has failed
C13_Witness ==
    /\ last_call.op = "construct"
    /\ last_call.given = <<>>
    /\ last_call.error = "ValueError"

----------------------------------------------------------------------------
(* Properties of handle_event with raising handlers, under SpecFailure *)

\* C14: handle_event is all-or-nothing for an event whose persist decision is
\* true: either the event was stamped, associated, handed to every handler and
\* written to the log, or (a handler raised) it was dropped without having been
\* enriched and without any handler having observed it; no event is left enriched
\* and observed by handlers but missing from the log
C14_AllOrNothing ==
    (last_call.op \in {"handle_event", "handle_event_raised"} /\ StatedDecision(last_call)) =>
        \/ /\ TimesInLog(last_call.event.id) = 1
           /\ Enriched(last_call.event)
           /\ Len(last_call.calls) = Len(handlers)
        \/ /\ TimesInLog(last_call.event.id) = 0
           /\ last_call.event = last_call.given
           /\ last_call.calls = <<>>

----------------------------------------------------------------------------
(* Properties of team runs, under SpecRun *)

\* the newest event of the log is a tool result with end_turn = false, scoped to
\* the active tasks, produced by leaf agent b, a member of team s, which is a
\* member of team parent
NestedContinuation(parent, s, b) ==
    /\ s \in TeamObjects
    /\ s \in Range(team_agents[parent])
    /\ b \in Range(team_agents[s])
    /\ flow_events # <<>>
    /\ flow_events[Len(flow_events)].agent = b
    /\ flow_events[Len(flow_events)].event = "tool-result"
    /\ ~flow_events[Len(flow_events)].end_turn
    /\ flow_events[Len(flow_events)].task_ids \cap tasks # {}

\* C15: continuation holds through nesting: when the most recent relevant event
\* is a tool result with end_turn = false of leaf agent B, member of a team S that
\* is a member of the parent team, the next run of the parent ends with B acting
\* and advances neither the parent's nor S's turn counter
C15_ContinuationThroughNesting ==
    [][\A parent \in Teams, s \in Teams, b \in Leaves :
        (/\ last_call'.op = "run"
         /\ last_call'.team = parent
         /\ NestedContinuation(parent, s, b)) =>
            /\ last_call'.acting = b
            /\ iterations'[parent] = iterations[parent]
            /\ iterations'[s] = iterations[s]]_vars

----------------------------------------------------------------------------
(* Properties of the turn counter, under SpecCounter *)

\* C16: a team's turn counter never decreases and is never reset: across any
\* number of runs and contexts, entering and leaving a context included, it
\* equals 0 plus the number of get_agent calls that did not return through the
\* continuation branch
C16_CounterCountsRotations ==
    [][\A team \in TeamObjects :
        /\ iterations'[team] >= iterations[team]
        /\ iterations'[team] = rotating_calls'[team]]_vars

\* C16 happens: in a later run, inside an entered context, Team's get_agent
\* rotated to Bob at counter 1, while the log holds a tool result from the earlier
\* run
C16_Witness ==
    /\ last_call.op = "get_agent"
    /\ last_call.team = "Team"
    /\ last_call.agent = "Bob"
    /\ iterations["Team"] = 2
    /\ tasks = {"t2"}
    /\ ambient = "c1"
    /\ \E i \in 1..Len(flow_events) : flow_events[i].task_ids = {"t1"}

----------------------------------------------------------------------------
(* Properties of the context's lists, under SpecContext *)

IsPrefix(s, t) == Len(s) <= Len(t) /\ SubSeq(t, 1, Len(s)) = s

RegisteredPrompt ==
    LET n == Len(agents)
        segments == [i \in 1..n |-> get_prompt(agents[n + 1 - i])]
                    \o <<flow_prompt, render_tasks(tasks), render_tools(tools),
                         render_instructions(instructions)>>
        kept == SelectSeq(segments, IsText)
    IN  BlankLineSeparated(kept, Len(kept))

\* the system prompt a compile call produced
CompiledPrompt(call) ==
    IF call.op = "compile_prompt" THEN call.prompt ELSE call.messages.system_prompt

\* C20: compile_prompt and compile_messages are read-only: called with a target
\* that is not registered they include the target's prompt in the output and leave
\* the participant list, the tools, handlers and instructions lists and the event
\* log unchanged, so that a later handle_event associates the event with the
\* registered participants only
C20_CompileIsReadOnly ==
    [][/\ last_call'.op \in {"compile_prompt", "compile_messages"} =>
            /\ agents' = agents
            /\ tools' = tools
            /\ handlers' = handlers
            /\ instructions' = instructions
            /\ flow_events' = flow_events
            /\ last_call'.agent \notin Range(agents) =>
                   CompiledPrompt(last_call') =
                       get_prompt(last_call'.agent) \o "\n\n" \o RegisteredPrompt
       /\ last_call'.op = "handle_event" =>
            last_call'.event.agent_ids = Range(agents)]_vars

\* C20 happens: messages were compiled for Bob, who is not registered, in a
\* context with a participant and an event in the log
C20_Witness ==
    /\ last_call.op = "compile_messages"
    /\ last_call.agent = "Bob"
    /\ "Bob" \notin Range(agents)
    /\ agents # <<>>
    /\ flow_events # <<>>
    /\ last_call.messages.events # <<>>

----------------------------------------------------------------------------
(* Frame of Team.get_agent, under SpecRun *)

\* C18: get_agent on a team T changes nothing except T's own turn counter: the
\* counter of every other team (parent, nested member or sibling), the event log
\* and the context's agents, tools, handlers and instructions lists are left
\* unchanged; within a team run a nested team's counter changes only when that
\* nested team's own get_agent rotates
C18_GetAgentFrame ==
    [][/\ \A team \in Teams :
            IsGetAgent(team) =>
                /\ \A other \in TeamObjects \ {team} : iterations'[other] = iterations[other]
                /\ flow_events' = flow_events
                /\ agents' = agents
                /\ tools' = tools
                /\ handlers' = handlers
                /\ instructions' = instructions
       /\ last_call'.op = "run" =>
            \A team \in TeamObjects :
                iterations'[team] # iterations[team] =>
                    /\ team \in Selecting(last_call'.selections)
                    /\ ~Continuation(team)]_vars

\* C18 happens: Outer's get_agent rotated to Carol and brought Outer's counter to
\* 2 while the counter of its member Team stands at 1, with participants and a
\* tool registered and an event in the log
C18_Witness ==
    /\ last_call.op = "get_agent"
    /\ last_call.team = "Outer"
    /\ last_call.agent = "Carol"
    /\ iterations["Outer"] = 2
    /\ iterations["Team"] = 1
    /\ agents # <<>>
    /\ tools # <<>>
    /\ flow_events # <<>>

----------------------------------------------------------------------------
(* Properties of interleaved asynchronous runs, under SpecAsync *)

\* the selections of get_agent on team that the asynchronous runs have made
\* through the rotation branch, each as <<run, position in the run>>
RotatingSelections(team) ==
    {pi \in AsyncRuns \X (1..Cardinality(TeamObjects)) :
        /\ runs[pi[1]].pc \in {"acting", "done"}
        /\ pi[2] <= Len(runs[pi[1]].selections)
        /\ runs[pi[1]].selections[pi[2]].team = team
        /\ ~runs[pi[1]].selections[pi[2]].continued}

\* C19: when asynchronous runs of a team interleave, suspending only inside a
\* member's turn, each selection is one uninterrupted step: no two rotating
\* selections have read the same counter value, and the counter stands at its
\* starting value 0 plus the number of rotating selections
C19_SelectionsDoNotInterleave ==
    \A team \in Teams :
        /\ \A x, y \in RotatingSelections(team) :
               runs[x[1]].selections[x[2]].counter = runs[y[1]].selections[y[2]].counter
                   => x = y
        /\ iterations[team] = Cardinality(RotatingSelections(team))

\* C19 happens: two runs of Team have both selected by rotation, different
\* members, and are inside their members' turns at the same time
C19_Witness ==
    /\ \A p \in AsyncRuns :
           /\ runs[p].pc = "acting"
           /\ runs[p].team = "Team"
           /\ ~runs[p].selections[1].continued
    /\ runs["r1"].agent # runs["r2"].agent
    /\ iterations["Team"] = 2

====
